---- MODULE Spec2Model ----
(***************************************************************************)
(* Model of src/src/api/thumbnails.ts: the thumbnail handlers              *)
(* (handlerGetThumbnail, handlerUploadThumbnail), the video upload handler *)
(* (handlerUploadVideo) and its helpers (getVideoAspectRatio,              *)
(* processVideoForFastStart, dbVideoToSignedVideo, generatePresignedURL).  *)
(*                                                                         *)
(* A request runs in a slot r \in Req.  Every action is one segment of a   *)
(* handler between two suspension points (await): the JavaScript runtime   *)
(* runs such a segment without interleaving, and may run a segment of      *)
(* another request at every await.  A request enters with the principal    *)
(* that validateJWT returned and with a non-empty videoId route parameter. *)
(***************************************************************************)
EXTENDS Integers, Sequences, FiniteSets, TLC

VARIABLES
  db,               \* the record store behind getVideo / updateVideo
  disk,             \* the file system: path -> content
  s3,               \* the bucket behind cfg.s3Client: key -> content
  videoThumbnails,  \* the module-level Map of thumbnails.ts:15
  pc,               \* per slot: the await the request is suspended at
  args,             \* per slot: the request (videoId, userID, file)
  local,            \* per slot: the handler's local variables
  result,           \* per slot: the response or the error thrown
  trace,            \* per slot (history): the steps the request performed, and
                    \* "failed" after a step whose tool or service call failed
  lastThumb,        \* history: per videoId, the last successfully uploaded thumbnail
  interf,           \* history: operations of one request on another's scratch file
  before,           \* per slot (history): the stores as the request found them
  started,          \* number of requests started so far
  sample            \* a stream geometry and what getVideoAspectRatio made of it

vars == <<db, disk, s3, videoThumbnails, pc, args, local, result, trace,
          lastThumb, interf, before, started, sample>>

----------------------------------------------------------------------------
(* Bounds of the model *)

\* Requests started in one behaviour.
MaxRequests == 2

\* Number of distinct values randomBytes(32) can take in the model.
MaxRandom == 2

\* Largest width and height of the sampled stream geometries.
MaxDim == 100

----------------------------------------------------------------------------
(* Inputs *)

Req == {"r1", "r2"}

\* Identifiers with a record in the store, and one without.
RecordIds == {"v1", "v2"}
VideoIds == RecordIds \cup {"v9"}
Users == {"u1", "u2"}

NoFile == [data |-> "", type |-> "<not a File>"]

MediaTypes == {"video/mp4", "image/png", "image/jpeg", ""}

\* Uploaded payloads.  A payload fixes its own length (File.size) and what
\* ffprobe reports about it.
Blobs == {"L", "P", "S", "X", "T", "A", "N"}

Pow2(n) == 2 ^ n

\* JavaScript a << n on values that stay below 2^31.
Shl(a, n) == a * Pow2(n)

THUMB_MAX_UPLOAD_SIZE == Shl(10, 20)

VIDEO_MAX_UPLOAD_SIZE == Shl(1, 30)

Size(b) ==
  CASE b = "L" -> VIDEO_MAX_UPLOAD_SIZE
    [] b = "P" -> THUMB_MAX_UPLOAD_SIZE
    [] b = "S" -> Pow2(12)
    [] b = "X" -> VIDEO_MAX_UPLOAD_SIZE + 1
    [] b = "T" -> THUMB_MAX_UPLOAD_SIZE + 1
    [] b = "A" -> Pow2(12)
    [] b = "N" -> Pow2(12)
    [] OTHER -> 0

\* The streams ffprobe reports for a payload (stdout, parsed): "A" has no video
\* stream, the stream of "N" carries no width.
Streams(b) ==
  CASE b = "L" -> <<[width |-> 1920, height |-> 1080]>>
    [] b = "P" -> <<[width |-> 1080, height |-> 1920]>>
    [] b = "S" -> <<[width |-> 1000, height |-> 1000]>>
    [] b = "X" -> <<[width |-> 1280, height |-> 720]>>
    [] b = "T" -> <<[width |-> 720, height |-> 1280]>>
    [] b = "N" -> <<[height |-> 1080]>>
    [] OTHER -> <<>>

\* The form field of a request: not a File, or a payload with its declared type.
Files ==
  {NoFile,
   [data |-> "L", type |-> "video/mp4"],
   [data |-> "P", type |-> "video/mp4"],
   [data |-> "S", type |-> "video/mp4"],
   [data |-> "X", type |-> "video/mp4"],
   [data |-> "A", type |-> "video/mp4"],
   [data |-> "N", type |-> "video/mp4"],
   [data |-> "P", type |-> "image/png"],
   [data |-> "S", type |-> "image/jpeg"],
   [data |-> "T", type |-> "image/png"],
   [data |-> "S", type |-> ""]}

Requests == [videoId : VideoIds, userID : Users, file : Files]

NoRequest == [op |-> "", videoId |-> "", userID |-> "", file |-> NoFile]

NoVideo == [id |-> "", userID |-> "", videoURL |-> "", thumbnailURL |-> ""]

\* probe is the ended ffprobe process, once there is one.
NoLocal == [videoTemp |-> NoVideo, tempFilePath |-> "", probe |-> <<>>,
            aspectRatio |-> "", key |-> "", processedVid |-> "", urlPath |-> ""]

NoResult == [status |-> "none"]

\* A thrown error, as the caller sees it.
Err(name, message) == [status |-> "error", error |-> name, message |-> message]

\* respondWithJSON(200, video)
RespondWithJSON(video) == [status |-> "ok", body |-> video]

----------------------------------------------------------------------------
(* The record store (../db/videos) *)

\* getVideo: the stored row, as a fresh object, or nothing.
HasVideo(videoId) == videoId \in DOMAIN db

GetVideo(videoId) == db[videoId]

\* updateVideo: the row of video.id is replaced by the object's fields.
UpdateVideo(video) == [db EXCEPT ![video.id] = video]

----------------------------------------------------------------------------
(* Helpers of thumbnails.ts *)

Classifications == {"landscape", "portrait", "other"}

\* StorageKey with the two parts in the other order.
StorageKey_Swapped(aspectRatio, videoId) == videoId \o "/" \o aspectRatio \o ".mp4"

\* `${aspectRatio}/${videoId}.mp4`
StorageKey(aspectRatio, videoId) == aspectRatio \o "/" \o videoId \o ".mp4"

\* path.join("/tmp", `${videoId}.mp4`)
TempFilePath(videoId) == "/tmp/" \o videoId \o ".mp4"

\* inputFilePath + ".processed"
OutputFilePath(inputFilePath) == inputFilePath \o ".processed"

\* cfg.s3Client.presign(key, { expiresIn }): a URL that embeds the key, the
\* expiry and a signature; never a bare key.
Presign(key, expiresIn) ==
  "https://bucket.s3/" \o key \o "?X-Amz-Expires=" \o ToString(expiresIn)
    \o "&X-Amz-Signature=sig"

SIGN_EXPIRY == 360

GeneratePresignedURL(key, expireTime) == Presign(key, expireTime)

\* DbVideoToSignedVideo asking for an expiry of one hour.
DbVideoToSignedVideo_Hour(video) ==
  [video EXCEPT !.videoURL = GeneratePresignedURL(video.videoURL, 3600)]

\* dbVideoToSignedVideo mutates the object it is given and returns it.
DbVideoToSignedVideo(video) ==
  [video EXCEPT !.videoURL = GeneratePresignedURL(video.videoURL, SIGN_EXPIRY)]

\* mediaType.split("/")[1] for the media types of the model.
Subtype(mediaType) ==
  CASE mediaType = "video/mp4" -> "mp4"
    [] mediaType = "image/png" -> "png"
    [] mediaType = "image/jpeg" -> "jpeg"
    [] OTHER -> "undefined"

RandomNames == {"rnd" \o ToString(i) : i \in 1..MaxRandom}

\* `/assets/${randomName}${filetype}`
UrlPath(randomName, mediaType) ==
  "/assets/" \o randomName \o "." \o Subtype(mediaType)

\* path.join(cfg.assetsRoot, `${randomName}${filetype}`)
FullPath(randomName, mediaType) ==
  "assets/" \o randomName \o "." \o Subtype(mediaType)

CfgPort == "8091"

\* `http://localhost:${port}${urlPath}`
ThumbnailURL(urlPath) == "http://localhost:" \o CfgPort \o urlPath

(* Double arithmetic of lines 196-198.  A positive double is [hi, mid, lo, sc]
   with value (hi * 2^36 + mid * 2^18 + lo) * 2^sc: a significand of 53 bits in
   three limbs, 2^16 <= hi < 2^17 and mid, lo < 2^18.  Division and
   multiplication round to the nearest double, ties to even (IEEE 754). *)
Limb == 2 ^ 18

HiMin == 2 ^ 16

\* The double nearest to (hi, mid, lo plus half a unit when guard = 1, plus a
\* non-zero tail when sticky) * 2^sc.
RoundToDouble(hi, mid, lo, guard, sticky, sc) ==
  LET up == guard = 1 /\ (sticky \/ lo % 2 = 1)
      lo1 == IF up THEN lo + 1 ELSE lo
      mid1 == mid + (lo1 \div Limb)
      hi1 == hi + (mid1 \div Limb)
  IN IF hi1 = 2 * HiMin
       THEN [hi |-> HiMin, mid |-> 0, lo |-> 0, sc |-> sc + 1]
       ELSE [hi |-> hi1, mid |-> mid1 % Limb, lo |-> lo1 % Limb, sc |-> sc]

\* w / h for positive integers below 2^12, by long division limb by limb
JsDiv(w, h) ==
  LET a == CHOOSE k \in 1..28 : HiMin * h <= w * 2 ^ k /\ w * 2 ^ k < 2 * HiMin * h
      n == w * 2 ^ a
      r1 == n % h
      r2 == (r1 * Limb) % h
      r3 == (r2 * Limb) % h
  IN RoundToDouble(n \div h, (r1 * Limb) \div h, (r2 * Limb) \div h,
                   (2 * r3) \div h, (2 * r3) % h # 0, -a - 36)

\* x * k for a double x and an integer 2 <= k < 2^12
JsMul(x, k) ==
  LET lo == x.lo * k
      mid == (x.mid * k) + (lo \div Limb)
      hi == (x.hi * k) + (mid \div Limb)
      s == CHOOSE j \in 1..12 : HiMin * 2 ^ j <= hi /\ hi < 2 * HiMin * 2 ^ j
      d == 2 ^ s
      dropped == (lo % Limb) % d
  IN RoundToDouble(hi \div d,
                   ((hi % d) * Limb + (mid % Limb)) \div d,
                   (((mid % Limb) % d) * Limb + (lo % Limb)) \div d,
                   dropped \div 2 ^ (s - 1), dropped % 2 ^ (s - 1) # 0, x.sc + s)

\* Math.floor(x) for a double 0 < x < 2^30
JsFloor(x) ==
  IF x.sc <= -53 THEN 0
  ELSE IF x.sc <= -36 THEN x.hi \div 2 ^ (-x.sc - 36)
  ELSE (x.hi * 2 ^ (36 + x.sc)) + (x.mid \div 2 ^ (-x.sc - 18))

(* getVideoAspectRatio, lines 194-208.  A stream without a width or a height
   makes the quotient NaN, which equals neither target. *)
LANDSCAPE == JsFloor(JsMul(JsDiv(16, 9), 100))

PORTRAIT == JsFloor(JsMul(JsDiv(9, 16), 100))

HasDims(stream) == {"width", "height"} \subseteq DOMAIN stream

Aspect(stream) == JsFloor(JsMul(JsDiv(stream.width, stream.height), 100))

Ratio(stream) ==
  IF ~HasDims(stream) THEN "other"
  ELSE IF Aspect(stream) = LANDSCAPE THEN "landscape"
  ELSE IF Aspect(stream) = PORTRAIT THEN "portrait"
  ELSE "other"

\* What the ffprobe process can end with for a file: [exit, json, streams];
\* json = FALSE is an stdout that JSON.parse rejects.
ProbeFailed == [exit |-> 1, json |-> FALSE, streams |-> <<>>]

Malformed == [exit |-> 0, json |-> FALSE, streams |-> <<>>]

FfprobeRuns(filePath) ==
  IF filePath \notin DOMAIN disk THEN {ProbeFailed}
  ELSE {ProbeFailed, Malformed,
        [exit |-> 0, json |-> TRUE, streams |-> Streams(disk[filePath])]}

\* getVideoAspectRatio on a finished process: the ratio, or the error thrown.
GetVideoAspectRatio(proc) ==
  IF proc.exit # 0 THEN [ok |-> FALSE, error |-> "Error", message |-> "ffprobe stderr"]
  ELSE IF ~proc.json
    THEN [ok |-> FALSE, error |-> "SyntaxError", message |-> "JSON.parse"]
  ELSE IF Len(proc.streams) = 0
    THEN [ok |-> FALSE, error |-> "TypeError", message |-> "data.streams[0] is undefined"]
  ELSE [ok |-> TRUE, ratio |-> Ratio(proc.streams[1])]

\* What ffmpeg leaves behind: the exit code and what it wrote at the output path.
Faststart(content) == "faststart:" \o content

Partial(content) == "partial:" \o content

Empty == ""

FfmpegRuns(inputFilePath) ==
  IF inputFilePath \notin DOMAIN disk THEN {[exit |-> 1, wrote |-> FALSE, out |-> Empty]}
  ELSE {[exit |-> 0, wrote |-> TRUE, out |-> Faststart(disk[inputFilePath])],
        [exit |-> 0, wrote |-> TRUE, out |-> Empty],
        [exit |-> 0, wrote |-> FALSE, out |-> Empty],
        [exit |-> 1, wrote |-> FALSE, out |-> Empty],
        [exit |-> 1, wrote |-> TRUE, out |-> Partial(disk[inputFilePath])]}

\* m with key k set to v
MapPut(m, k, v) == [x \in DOMAIN m \cup {k} |-> IF x = k THEN v ELSE m[x]]

\* Bun.write(path, bytes)
WriteFile(fs, path, content) == MapPut(fs, path, content)

\* rm(path, { force: true })
RemoveFile(fs, path) == [p \in DOMAIN fs \ {path} |-> fs[p]]

EmptyMap == [p \in {} |-> ""]

----------------------------------------------------------------------------
(* Initial state: two records, an empty disk, bucket and thumbnail map *)

\* The stores a request can change.
Snapshot == [db |-> db, disk |-> disk, s3 |-> s3, videoThumbnails |-> videoThumbnails]

NoSnapshot == [db |-> EmptyMap, disk |-> EmptyMap, s3 |-> EmptyMap,
               videoThumbnails |-> EmptyMap]

InitialVideo(videoId, userID) ==
  [id |-> videoId, userID |-> userID, videoURL |-> "", thumbnailURL |-> ""]

NoSample == [width |-> 0, height |-> 0, ratio |-> ""]

\* The state of the stores and the slots before the first request.
InitStores ==
  /\ db = [v \in RecordIds |-> InitialVideo(v, IF v = "v1" THEN "u1" ELSE "u2")]
  /\ disk = EmptyMap
  /\ s3 = EmptyMap
  /\ videoThumbnails = EmptyMap
  /\ pc = [r \in Req |-> "idle"]
  /\ args = [r \in Req |-> NoRequest]
  /\ local = [r \in Req |-> NoLocal]
  /\ result = [r \in Req |-> NoResult]
  /\ trace = [r \in Req |-> <<>>]
  /\ lastThumb = EmptyMap
  /\ interf = {}
  /\ before = [r \in Req |-> NoSnapshot]
  /\ started = 0

Init ==
  /\ InitStores
  /\ sample = NoSample

\* The request of slot q holds a scratch file it wrote and has not yet removed.
HoldsScratch(q) ==
  pc[q] \in {"v_probe", "v_remux", "v_exists", "v_put", "v_sign", "v_rm",
            "v_probe_hung", "v_remux_hung"}

\* History: slot r performs op on path while another request holds it as scratch.
Touch(r, path, op) ==
  interf \cup {[victim |-> q, by |-> r, op |-> op] :
                 q \in {x \in Req \ {r} : HoldsScratch(x) /\ local[x].tempFilePath = path}}

\* The handler of slot r ends: it returns res or throws it.
Finish(r, res, steps) ==
  /\ pc' = [pc EXCEPT ![r] = "done"]
  /\ result' = [result EXCEPT ![r] = res]
  /\ trace' = [trace EXCEPT ![r] = trace[r] \o steps]

\* The handler of slot r suspends at the await named next.
Suspend(r, next, steps) ==
  /\ pc' = [pc EXCEPT ![r] = next]
  /\ trace' = [trace EXCEPT ![r] = trace[r] \o steps]
  /\ UNCHANGED result

\* A request enters slot r.
Enter(r, op, req) ==
  /\ pc[r] = "idle"
  /\ started < MaxRequests
  /\ started' = started + 1
  /\ before' = [before EXCEPT ![r] = Snapshot]
  /\ args' = [args EXCEPT ![r] = [op |-> op, videoId |-> req.videoId,
                                  userID |-> req.userID, file |-> req.file]]

----------------------------------------------------------------------------
(* handlerGetThumbnail, lines 17-39: no await, one step *)

\* GetThumbnailResult answering a missing thumbnail with an empty payload.
GetThumbnailResult_Default(videoId) ==
  IF ~HasVideo(videoId) THEN Err("NotFoundError", "Couldn't find video")
  ELSE IF videoId \notin DOMAIN videoThumbnails
    THEN [status |-> "ok", data |-> "", contentType |-> ""]
  ELSE [status |-> "ok", data |-> videoThumbnails[videoId].data,
        contentType |-> videoThumbnails[videoId].mediaType]

GetThumbnailResult(videoId) ==
  IF ~HasVideo(videoId) THEN Err("NotFoundError", "Couldn't find video")
  ELSE IF videoId \notin DOMAIN videoThumbnails
    THEN Err("NotFoundError", "Thumbnail not found")
  ELSE [status |-> "ok", data |-> videoThumbnails[videoId].data,
        contentType |-> videoThumbnails[videoId].mediaType]

GetThumbnail(r, videoId) ==
  /\ Enter(r, "get", [videoId |-> videoId, userID |-> "", file |-> NoFile])
  /\ Finish(r, GetThumbnailResult(videoId), <<"getVideo", "registryGet">>)
  /\ UNCHANGED <<db, disk, s3, videoThumbnails, local, lastThumb, interf, sample>>

----------------------------------------------------------------------------
(* handlerUploadThumbnail, lines 41-93 *)

\* ThumbnailPayloadError without the check of line 66: any non-empty type passes.
ThumbnailPayloadError_AnyType(file) ==
  IF file = NoFile THEN Err("BadRequestError", "Thumbnail file missing")
  ELSE IF Size(file.data) > THUMB_MAX_UPLOAD_SIZE
    THEN Err("BadRequestError", "Thumbnail too large, max size: 10MB")
  ELSE IF file.type = ""
    THEN Err("BadRequestError", "Missing Content-Type for thumbnail")
  ELSE NoResult

\* lines 54-68: the checks on the form field
ThumbnailPayloadError(file) ==
  IF file = NoFile THEN Err("BadRequestError", "Thumbnail file missing")
  ELSE IF Size(file.data) > THUMB_MAX_UPLOAD_SIZE
    THEN Err("BadRequestError", "Thumbnail too large, max size: 10MB")
  ELSE IF file.type = ""
    THEN Err("BadRequestError", "Missing Content-Type for thumbnail")
  ELSE IF file.type # "image/jpeg" /\ file.type # "image/png"
    THEN Err("BadRequestError", "Invalid Content-Type for thumbnail")
  ELSE NoResult

\* lines 80-86: the lookup and the ownership check
RecordError(videoId, userID) ==
  IF ~HasVideo(videoId) THEN Err("NotFoundError", "Couldn't find video")
  ELSE IF GetVideo(videoId).userID # userID
    THEN Err("UserForbiddenError", "Not authorized to update this video")
  ELSE NoResult

\* lines 42-70: up to await thumbnail.arrayBuffer()
UploadThumbnailStart(r, req) ==
  /\ Enter(r, "thumbnail", req)
  /\ IF ThumbnailPayloadError(req.file) # NoResult
       THEN Finish(r, ThumbnailPayloadError(req.file), <<"validate">>)
       ELSE Suspend(r, "t_write", <<"validate">>)
  /\ UNCHANGED <<db, disk, s3, videoThumbnails, local, lastThumb, interf, sample>>

\* lines 71-78: the asset file is written under a random name
UploadThumbnailWrite(r, randomName) ==
  /\ pc[r] = "t_write"
  /\ disk' = WriteFile(disk, FullPath(randomName, args[r].file.type), args[r].file.data)
  /\ local' = [local EXCEPT ![r].urlPath = UrlPath(randomName, args[r].file.type)]
  /\ Suspend(r, "t_update", <<"assetWrite">>)
  /\ UNCHANGED <<db, s3, videoThumbnails, args, lastThumb, interf, started, before, sample>>

\* UploadThumbnailUpdate assigning the URL to the record's videoURL.
UploadThumbnailUpdate_WrongField(r) ==
  /\ pc[r] = "t_update"
  /\ IF ~HasVideo(args[r].videoId)
       THEN /\ Finish(r, RecordError(args[r].videoId, args[r].userID), <<"getVideo">>)
            /\ UNCHANGED <<db, local, lastThumb>>
     ELSE IF RecordError(args[r].videoId, args[r].userID) # NoResult
       THEN /\ Finish(r, RecordError(args[r].videoId, args[r].userID),
                      <<"getVideo", "authorize">>)
            /\ UNCHANGED <<db, local, lastThumb>>
     ELSE LET video == [GetVideo(args[r].videoId) EXCEPT
                          !.videoURL = ThumbnailURL(local[r].urlPath)]
          IN /\ db' = UpdateVideo(video)
             /\ local' = [local EXCEPT ![r].videoTemp = video]
             /\ lastThumb' = MapPut(lastThumb, args[r].videoId,
                               [data |-> args[r].file.data, mediaType |-> args[r].file.type])
             /\ Finish(r, RespondWithJSON(video),
                       <<"getVideo", "authorize", "updateVideo">>)
  /\ UNCHANGED <<disk, s3, videoThumbnails, args, interf, started, before, sample>>

\* lines 80-92: lookup, ownership check, record update, response
UploadThumbnailUpdate(r) ==
  /\ pc[r] = "t_update"
  /\ IF ~HasVideo(args[r].videoId)
       THEN /\ Finish(r, RecordError(args[r].videoId, args[r].userID), <<"getVideo">>)
            /\ UNCHANGED <<db, local, lastThumb>>
     ELSE IF RecordError(args[r].videoId, args[r].userID) # NoResult
       THEN /\ Finish(r, RecordError(args[r].videoId, args[r].userID),
                      <<"getVideo", "authorize">>)
            /\ UNCHANGED <<db, local, lastThumb>>
     ELSE LET video == [GetVideo(args[r].videoId) EXCEPT
                          !.thumbnailURL = ThumbnailURL(local[r].urlPath)]
          IN /\ db' = UpdateVideo(video)
             /\ local' = [local EXCEPT ![r].videoTemp = video]
             /\ lastThumb' = MapPut(lastThumb, args[r].videoId,
                               [data |-> args[r].file.data, mediaType |-> args[r].file.type])
             /\ Finish(r, RespondWithJSON(video),
                       <<"getVideo", "authorize", "updateVideo">>)
  /\ UNCHANGED <<disk, s3, videoThumbnails, args, interf, started, before, sample>>

----------------------------------------------------------------------------
(* handlerUploadVideo, lines 107-160 *)

VIDEO_TYPE == "video/mp4"

\* VideoPayloadError with the size compared by >= : a file of exactly 1 GiB is rejected.
VideoPayloadError_SizeOffByOne(file) ==
  IF file = NoFile THEN Err("BadRequestError", "Video file missing")
  ELSE IF Size(file.data) >= VIDEO_MAX_UPLOAD_SIZE
    THEN Err("BadRequestError", "Video too large, max size: 1GB")
  ELSE IF file.type = ""
    THEN Err("BadRequestError", "Missing Content-Type for video")
  ELSE IF file.type # VIDEO_TYPE
    THEN Err("BadRequestError", "Invalid Content-Type for video, only MP4 is allowed")
  ELSE NoResult

\* lines 116-125: the checks on the form field
VideoPayloadError(file) ==
  IF file = NoFile THEN Err("BadRequestError", "Video file missing")
  ELSE IF Size(file.data) > VIDEO_MAX_UPLOAD_SIZE
    THEN Err("BadRequestError", "Video too large, max size: 1GB")
  ELSE IF file.type = ""
    THEN Err("BadRequestError", "Missing Content-Type for video")
  ELSE IF file.type # VIDEO_TYPE
    THEN Err("BadRequestError", "Invalid Content-Type for video, only MP4 is allowed")
  ELSE NoResult

\* UploadVideoStart with the lookup and the ownership check moved before the
\* checks on the form field.
UploadVideoStart_LookupFirst(r, req) ==
  /\ Enter(r, "video", req)
  /\ IF ~HasVideo(req.videoId)
       THEN /\ Finish(r, RecordError(req.videoId, req.userID), <<"getVideo">>)
            /\ UNCHANGED local
     ELSE IF RecordError(req.videoId, req.userID) # NoResult
       THEN /\ Finish(r, RecordError(req.videoId, req.userID), <<"getVideo", "authorize">>)
            /\ UNCHANGED local
     ELSE IF VideoPayloadError(req.file) # NoResult
       THEN /\ Finish(r, VideoPayloadError(req.file), <<"getVideo", "authorize", "validate">>)
            /\ UNCHANGED local
     ELSE /\ local' = [local EXCEPT ![r].videoTemp = GetVideo(req.videoId),
                                    ![r].tempFilePath = TempFilePath(req.videoId)]
          /\ Suspend(r, "v_write", <<"getVideo", "authorize", "validate">>)
  /\ UNCHANGED <<db, disk, s3, videoThumbnails, lastThumb, interf, sample>>

\* lines 108-131: validation, lookup, ownership check, up to await video.arrayBuffer()
UploadVideoStart(r, req) ==
  /\ Enter(r, "video", req)
  /\ IF VideoPayloadError(req.file) # NoResult
       THEN /\ Finish(r, VideoPayloadError(req.file), <<"validate">>)
            /\ UNCHANGED local
     ELSE IF ~HasVideo(req.videoId)
       THEN /\ Finish(r, RecordError(req.videoId, req.userID), <<"validate", "getVideo">>)
            /\ UNCHANGED local
     ELSE IF RecordError(req.videoId, req.userID) # NoResult
       THEN /\ Finish(r, RecordError(req.videoId, req.userID),
                      <<"validate", "getVideo", "authorize">>)
            /\ UNCHANGED local
     ELSE /\ local' = [local EXCEPT ![r].videoTemp = GetVideo(req.videoId),
                                    ![r].tempFilePath = TempFilePath(req.videoId)]
          /\ Suspend(r, "v_write", <<"validate", "getVideo", "authorize">>)
  /\ UNCHANGED <<db, disk, s3, videoThumbnails, lastThumb, interf, sample>>

\* line 136: await Bun.write(tempFilePath, videoBytes)
UploadVideoWrite(r) ==
  /\ pc[r] = "v_write"
  /\ disk' = WriteFile(disk, local[r].tempFilePath, args[r].file.data)
  /\ interf' = Touch(r, local[r].tempFilePath, "write")
  /\ Suspend(r, "v_probe", <<"scratchWrite">>)
  /\ UNCHANGED <<db, s3, videoThumbnails, args, local, lastThumb, started, before, sample>>

\* lines 137-141: the probe ends; on success the key is derived, the in-memory
\* record gets the key and the remux process is started
UploadVideoProbe(r, proc) ==
  /\ pc[r] = "v_probe"
  /\ proc \in FfprobeRuns(local[r].tempFilePath)
  /\ interf' = Touch(r, local[r].tempFilePath, "read")
  /\ LET got == GetVideoAspectRatio(proc)
     IN IF ~got.ok
          THEN /\ Finish(r, Err(got.error, got.message), <<"probe", "failed">>)
               /\ local' = [local EXCEPT ![r].probe = <<proc>>]
          ELSE LET key == StorageKey(got.ratio, args[r].videoId)
               IN /\ local' = [local EXCEPT ![r].probe = <<proc>>,
                                            ![r].aspectRatio = got.ratio,
                                            ![r].key = key,
                                            ![r].videoTemp.videoURL = key]
                  /\ Suspend(r, "v_remux", <<"probe", "key", "setVideoURL">>)
  /\ UNCHANGED <<db, disk, s3, videoThumbnails, args, lastThumb, started, before, sample>>

\* lines 141, 212-228: the remux process ends
UploadVideoRemux(r, proc) ==
  /\ pc[r] = "v_remux"
  /\ proc \in FfmpegRuns(local[r].tempFilePath)
  /\ interf' = Touch(r, local[r].tempFilePath, "read")
  /\ disk' = IF proc.wrote
               THEN WriteFile(disk, OutputFilePath(local[r].tempFilePath), proc.out)
               ELSE disk
  /\ IF proc.exit # 0
       THEN /\ Finish(r, Err("Error", "Command failed with code 1"), <<"remux", "failed">>)
            /\ UNCHANGED local
       ELSE /\ local' = [local EXCEPT ![r].processedVid =
                                        OutputFilePath(local[r].tempFilePath)]
            /\ Suspend(r, "v_exists", <<"remux">>)
  /\ UNCHANGED <<db, s3, videoThumbnails, args, lastThumb, started, before, sample>>

\* lines 145-148: await body.exists()
UploadVideoExists(r) ==
  /\ pc[r] = "v_exists"
  /\ IF local[r].processedVid \notin DOMAIN disk
       THEN Finish(r, Err("Error", "Processed file was not created"), <<"exists", "failed">>)
       ELSE Suspend(r, "v_put", <<"exists">>)
  /\ UNCHANGED <<db, disk, s3, videoThumbnails, args, local, lastThumb, interf,
                 started, before, sample>>

\* UploadVideoPut with the rejection of the write caught and ignored.
UploadVideoPut_Swallow(r, ok) ==
  /\ pc[r] = "v_put"
  /\ IF ok /\ local[r].processedVid \in DOMAIN disk
       THEN /\ s3' = MapPut(s3, local[r].key, disk[local[r].processedVid])
            /\ Suspend(r, "v_sign", <<"put">>)
       ELSE /\ Suspend(r, "v_sign", <<"put", "failed">>)
            /\ UNCHANGED s3
  /\ UNCHANGED <<db, disk, videoThumbnails, args, local, lastThumb, interf,
                 started, before, sample>>

\* lines 149-150: await s3file.write(body, { type: videoType })
UploadVideoPut(r, ok) ==
  /\ pc[r] = "v_put"
  /\ IF ok /\ local[r].processedVid \in DOMAIN disk
       THEN /\ s3' = MapPut(s3, local[r].key, disk[local[r].processedVid])
            /\ Suspend(r, "v_sign", <<"put">>)
       ELSE /\ Finish(r, Err("S3Error", "write failed"), <<"put", "failed">>)
            /\ UNCHANGED s3
  /\ UNCHANGED <<db, disk, videoThumbnails, args, local, lastThumb, interf,
                 started, before, sample>>

\* lines 154-158: the presign ends; the signed record is stored and rm is started
UploadVideoSign(r, ok) ==
  /\ pc[r] = "v_sign"
  /\ IF ok
       THEN LET videoData == DbVideoToSignedVideo(local[r].videoTemp)
            IN /\ local' = [local EXCEPT ![r].videoTemp = videoData]
               /\ db' = UpdateVideo(videoData)
               /\ Suspend(r, "v_rm", <<"sign", "updateVideo">>)
       ELSE /\ Finish(r, Err("S3Error", "presign failed"), <<"sign", "failed">>)
            /\ UNCHANGED <<db, local>>
  /\ UNCHANGED <<disk, s3, videoThumbnails, args, lastThumb, interf, started, before, sample>>

\* lines 158-159: rm(tempFilePath, { force: true }) ends; the response
UploadVideoCleanup(r) ==
  /\ pc[r] = "v_rm"
  /\ disk' = RemoveFile(disk, local[r].tempFilePath)
  /\ interf' = Touch(r, local[r].tempFilePath, "delete")
  /\ Finish(r, RespondWithJSON(local[r].videoTemp), <<"rmScratch">>)
  /\ UNCHANGED <<db, s3, videoThumbnails, args, local, lastThumb, started, before, sample>>

----------------------------------------------------------------------------
(* The caller receives the answer and the slot is free again *)

Respond(r) ==
  /\ pc[r] = "done"
  /\ pc' = [pc EXCEPT ![r] = "idle"]
  /\ args' = [args EXCEPT ![r] = NoRequest]
  /\ local' = [local EXCEPT ![r] = NoLocal]
  /\ result' = [result EXCEPT ![r] = NoResult]
  /\ trace' = [trace EXCEPT ![r] = <<>>]
  /\ before' = [before EXCEPT ![r] = NoSnapshot]
  /\ UNCHANGED <<db, disk, s3, videoThumbnails, lastThumb, interf, started, sample>>

\* The steps every specification shares.
Step(r) ==
  \/ \E randomName \in RandomNames : UploadThumbnailWrite(r, randomName)
  \/ UploadThumbnailUpdate(r)
  \/ UploadVideoWrite(r)
  \/ \E proc \in FfprobeRuns(local[r].tempFilePath) : UploadVideoProbe(r, proc)
  \/ \E proc \in FfmpegRuns(local[r].tempFilePath) : UploadVideoRemux(r, proc)
  \/ UploadVideoExists(r)
  \/ \E ok \in BOOLEAN : UploadVideoPut(r, ok)
  \/ \E ok \in BOOLEAN : UploadVideoSign(r, ok)
  \/ UploadVideoCleanup(r)
  \/ Respond(r)

(* Requests arrive one at a time: the next one enters when the previous one
   has been answered, so one slot serves them all. *)
Next ==
  \/ \E req \in Requests : UploadVideoStart("r1", req)
  \/ \E req \in Requests : UploadThumbnailStart("r1", req)
  \/ \E videoId \in VideoIds : GetThumbnail("r1", videoId)
  \/ Step("r1")

Spec == Init /\ [][Next]_vars

(* Two video uploads in flight at the same time, one per slot, interleaved at
   every await. *)
NextConc ==
  \E r \in Req :
    \/ \E req \in Requests : UploadVideoStart(r, req)
    \/ UploadVideoWrite(r)
    \/ \E proc \in FfprobeRuns(local[r].tempFilePath) : UploadVideoProbe(r, proc)
    \/ \E proc \in FfmpegRuns(local[r].tempFilePath) : UploadVideoRemux(r, proc)
    \/ UploadVideoExists(r)
    \/ \E ok \in BOOLEAN : UploadVideoPut(r, ok)
    \/ \E ok \in BOOLEAN : UploadVideoSign(r, ok)
    \/ UploadVideoCleanup(r)

SpecConc == Init /\ [][NextConc]_vars

(* An external process that never exits.  Bun.spawn is given no timeout (lines
   181-186, 214-219) and nothing kills the process, so `await proc.exited`
   (lines 190, 223) never settles and the handler stays suspended there. *)
ToolHangs(r) ==
  /\ pc[r] \in {"v_probe", "v_remux"}
  /\ pc' = [pc EXCEPT ![r] = pc[r] \o "_hung"]
  /\ UNCHANGED <<db, disk, s3, videoThumbnails, args, local, result, trace,
                 lastThumb, interf, before, started, sample>>

NextHang ==
  \/ Next
  \/ ToolHangs("r1")

(* The runtime resumes a handler whose awaited promise has settled, and the
   caller takes an answer that is ready. *)
SpecHang == Init /\ [][NextHang]_vars /\ WF_vars(Step("r1"))

(* getVideoAspectRatio as a function of the first stream's geometry: the
   geometry is drawn in the initial state, the step applies the function to an
   ffprobe run that exited with 0 and reported that one stream. *)
Dims == (1..MaxDim) \cup {720, 1000, 1080, 1280, 1920}

InitClassify ==
  /\ InitStores
  /\ sample \in [width : Dims, height : Dims, ratio : {""}]

Classify ==
  /\ sample.ratio = ""
  /\ sample' = [sample EXCEPT !.ratio =
                  GetVideoAspectRatio([exit |-> 0, json |-> TRUE,
                    streams |-> <<[width |-> sample.width,
                                   height |-> sample.height]>>]).ratio]
  /\ UNCHANGED <<db, disk, s3, videoThumbnails, pc, args, local, result, trace,
                 lastThumb, interf, before, started>>

NextClassify == Classify

SpecClassify == InitClassify /\ [][NextClassify]_vars

----------------------------------------------------------------------------
(* Vocabulary of the properties *)

\* The request of slot r performed the step.
Has(r, step) == \E i \in DOMAIN trace[r] : trace[r][i] = step

Answered(r) == pc[r] = "done"

Threw(r) == Answered(r) /\ result[r].status = "error"

Returned(r) == Answered(r) /\ result[r].status = "ok"

\* The stores are as the request of slot r found them.
Untouched(r) == Snapshot = before[r]

\* No step of the request of slot r wrote anything.
NoWrite(r) ==
  \A step \in {"scratchWrite", "assetWrite", "put", "updateVideo", "registryPut"} :
    ~Has(r, step)

IsStorageKey(url) == \E c \in Classifications, v \in VideoIds : url = StorageKey(c, v)

ScratchOf(r) == TempFilePath(args[r].videoId)

ProcessedOf(r) == TempFilePath(args[r].videoId) \o ".processed"

IsUpload(r) == args[r].op \in {"video", "thumbnail"}

\* The form field of the request passes the checks of its path.
ValidPayload(r) ==
  /\ args[r].file # NoFile
  /\ \/ /\ args[r].op = "video"
        /\ Size(args[r].file.data) <= 2 ^ 30
        /\ args[r].file.type = "video/mp4"
     \/ /\ args[r].op = "thumbnail"
        /\ Size(args[r].file.data) <= 10 * 2 ^ 20
        /\ args[r].file.type \in {"image/jpeg", "image/png"}

----------------------------------------------------------------------------
(* Properties *)

(* C1: a video upload that wrote its scratch file and then failed (probe,
   remux, processed-file check, put or sign) has left neither the scratch file
   nor the processed file on disk when its error reaches the caller. *)
C1_FailedUploadLeavesNoFiles ==
  \A r \in Req :
    (Threw(r) /\ args[r].op = "video" /\ Has(r, "scratchWrite"))
      => (ScratchOf(r) \notin DOMAIN disk /\ ProcessedOf(r) \notin DOMAIN disk)

(* C2: the video-location of every stored record is empty or a storage key
   {classification}/{videoId}.mp4, never a signed URL. *)
C2_PersistedLocationIsKey ==
  \A v \in DOMAIN db : db[v].videoURL = "" \/ IsStorageKey(db[v].videoURL)

(* C3: a thumbnail retrieval for a videoId that has had a successful thumbnail
   upload returns the bytes and the media type of the most recent one. *)
C3_GetReturnsLastUpload ==
  \A r \in Req :
    (Answered(r) /\ args[r].op = "get" /\ args[r].videoId \in DOMAIN lastThumb)
      => result[r] = [status |-> "ok",
                      data |-> lastThumb[args[r].videoId].data,
                      contentType |-> lastThumb[args[r].videoId].mediaType]

(* C4: when a video upload returns successfully, the scratch file and the
   processed file are both gone from disk. *)
C4_SuccessRemovesBothFiles ==
  \A r \in Req :
    (Returned(r) /\ args[r].op = "video")
      => (ScratchOf(r) \notin DOMAIN disk /\ ProcessedOf(r) \notin DOMAIN disk)

(* C5: an upload (video or thumbnail) with a valid payload for a record owned
   by another principal ends in the authorization error and has changed
   nothing: no file, no object, no registry entry, no record. *)
C5_ForeignRecordNoSideEffect ==
  \A r \in Req :
    (Answered(r) /\ IsUpload(r) /\ ValidPayload(r) /\ HasVideo(args[r].videoId)
       /\ GetVideo(args[r].videoId).userID # args[r].userID)
      => (Threw(r) /\ result[r].error = "UserForbiddenError"
          /\ NoWrite(r) /\ Untouched(r))

(* C6: an upload (video or thumbnail) with a valid payload for a videoId
   without a record ends in the not-found error and has changed nothing. *)
C6_UnknownVideoNoSideEffect ==
  \A r \in Req :
    (Answered(r) /\ IsUpload(r) /\ ValidPayload(r) /\ ~HasVideo(args[r].videoId))
      => (Threw(r) /\ result[r].error = "NotFoundError"
          /\ NoWrite(r) /\ Untouched(r))

(* C7: an upload larger than the ceiling of its path (video 2^30 bytes,
   thumbnail 10 * 2^20 bytes) fails with the validation error in its first
   step and writes nothing; an upload of exactly the ceiling is not rejected
   for its size. *)
TooLarge(r) ==
  /\ args[r].file # NoFile
  /\ \/ args[r].op = "video" /\ Size(args[r].file.data) > 2 ^ 30
     \/ args[r].op = "thumbnail" /\ Size(args[r].file.data) > 10 * 2 ^ 20

AtCeiling(r) ==
  /\ args[r].file # NoFile
  /\ \/ args[r].op = "video" /\ Size(args[r].file.data) = 2 ^ 30
     \/ args[r].op = "thumbnail" /\ Size(args[r].file.data) = 10 * 2 ^ 20

SizeRejection ==
  {"Video too large, max size: 1GB", "Thumbnail too large, max size: 10MB"}

C7_OversizeRejectedWithoutWrite ==
  \A r \in Req :
    /\ (pc[r] # "idle" /\ TooLarge(r))
         => (Threw(r) /\ result[r].error = "BadRequestError"
             /\ NoWrite(r) /\ Untouched(r))
    /\ (Threw(r) /\ AtCeiling(r)) => result[r].message \notin SizeRejection

C7_Witness ==
  \E r \in Req :
    /\ Threw(r) /\ args[r].op = "video" /\ TooLarge(r)
    /\ Size(args[r].file.data) = 2 ^ 30 + 1
    /\ args[r].file.type = "video/mp4"

(* C8: an upload whose declared media type is outside the accepted set of its
   path (video: video/mp4; thumbnail: image/jpeg, image/png) fails with the
   validation error having done nothing but validate: no record lookup, no
   write, the stores unchanged. *)
WrongType(r) ==
  /\ args[r].file # NoFile
  /\ \/ args[r].op = "video" /\ args[r].file.type # "video/mp4"
     \/ args[r].op = "thumbnail" /\ args[r].file.type \notin {"image/jpeg", "image/png"}

C8_WrongTypeRejectedBeforeIO ==
  \A r \in Req :
    (pc[r] # "idle" /\ WrongType(r))
      => (Threw(r) /\ result[r].error = "BadRequestError"
          /\ trace[r] = <<"validate">> /\ Untouched(r))

C8_Witness ==
  \E r \in Req :
    /\ Threw(r) /\ args[r].op = "video" /\ args[r].file.type = "image/png"
    /\ Size(args[r].file.data) <= 2 ^ 30
    /\ HasVideo(args[r].videoId) /\ GetVideo(args[r].videoId).userID = args[r].userID

(* C9: while a video upload holds its scratch file (from its write to its
   cleanup), no other request writes, reads or deletes that file. *)
C9_ScratchIsExclusive == interf = {}

(* C10: in a video upload a failed step is the last step: once the probe, the
   remux, the processed-file check, the put or the signing has failed, the
   request performs nothing further and ends in an error, and the stored
   records are as the request found them. *)
C10_FailureAbortsPipeline ==
  \A r \in Req :
    /\ \A i \in DOMAIN trace[r] :
         trace[r][i] = "failed" => (i = Len(trace[r]) /\ Threw(r))
    /\ (Threw(r) /\ args[r].op = "video") => (db = before[r].db /\ ~Has(r, "updateVideo"))

C10_Witness ==
  \E r \in Req :
    /\ Threw(r) /\ args[r].op = "video"
    /\ Has(r, "put") /\ Has(r, "sign") /\ Has(r, "failed")
    /\ args[r].videoId \in DOMAIN before[r].db

(* C11: within one video upload the steps occur in the order validation,
   record lookup, ownership check, scratch write, probe, key derivation,
   remux, put, setting the in-memory record's video-location to the key,
   signing; in particular the video-location is set only after the put. *)
Pipeline == {"validate", "getVideo", "authorize", "scratchWrite", "probe", "key",
             "remux", "put", "setVideoURL", "sign"}

IsPrefix(s, t) == Len(s) <= Len(t) /\ s = SubSeq(t, 1, Len(s))

\* The steps of the request of slot r that the claim orders, in the order performed.
PipelineTrace(r) == SelectSeq(trace[r], LAMBDA step : step \in Pipeline)

ClaimedOrder ==
  <<"validate", "getVideo", "authorize", "scratchWrite", "probe", "key",
    "remux", "put", "setVideoURL", "sign">>

C11_StepsInClaimedOrder ==
  \A r \in Req :
    args[r].op = "video"
      => /\ IsPrefix(PipelineTrace(r), ClaimedOrder)
         /\ (local[r].videoTemp.videoURL # "" /\ local[r].videoTemp.videoURL = local[r].key)
              => Has(r, "put")

(* C11, as the code has it: the order is validation, record lookup, ownership
   check, scratch write, probe, key derivation, setting the in-memory record's
   video-location to the key, remux, put, signing; the video-location is set
   in memory right after the key is derived, before the remux and the put, and
   a record is stored only after the put and the signing. *)
CodeOrder ==
  <<"validate", "getVideo", "authorize", "scratchWrite", "probe", "key",
    "setVideoURL", "remux", "put", "sign">>

C11_StepsInCodeOrder ==
  \A r \in Req :
    args[r].op = "video"
      => /\ IsPrefix(PipelineTrace(r), CodeOrder)
         /\ Has(r, "key") <=> local[r].key # ""
         /\ (Has(r, "key") /\ ~Has(r, "updateVideo"))
              => local[r].videoTemp.videoURL = local[r].key
         /\ Has(r, "updateVideo") => (Has(r, "put") /\ Has(r, "sign"))

C11_Witness ==
  \E r \in Req :
    /\ Returned(r) /\ args[r].op = "video"
    /\ PipelineTrace(r) = CodeOrder

(* C12: in a video upload the put is performed only when the remuxed output
   file exists and is non-empty; when the remux reports success and the output
   is absent or of zero length, the request fails, nothing is put and no
   record is stored. *)
OutputUsable(r) == ProcessedOf(r) \in DOMAIN disk /\ disk[ProcessedOf(r)] # Empty

C12_PutOnlyNonEmptyOutput ==
  \A r \in Req :
    args[r].op = "video"
      => /\ (pc[r] = "v_put" \/ Has(r, "put")) => OutputUsable(r)
         /\ (Has(r, "exists") /\ ~OutputUsable(r))
              => (Threw(r) /\ ~Has(r, "put") /\ ~Has(r, "updateVideo")
                  /\ s3 = before[r].s3 /\ db = before[r].db)

(* C13: the prober fails with an error and returns no classification when the
   process exits non-zero, when its output is malformed, when the stream list
   is empty and when the first stream lacks a width or a height; the upload
   then fails and no storage key is derived. *)
ProbeMustFail(proc) ==
  \/ proc.exit # 0
  \/ ~proc.json
  \/ Len(proc.streams) = 0
  \/ ~HasDims(proc.streams[1])

C13_ProberRejectsUnusableOutput ==
  \A r \in Req :
    (local[r].probe # <<>> /\ ProbeMustFail(local[r].probe[1]))
      => /\ Threw(r)
         /\ trace[r][Len(trace[r])] = "failed"
         /\ local[r].aspectRatio = "" /\ local[r].key = ""
         /\ ~Has(r, "key")

(* C14: every video upload that has started eventually completes, with success
   or with a failure, also when the probe or the remux process never exits. *)
C14_EveryUploadCompletes ==
  \A r \in Req : (args[r].op = "video" /\ pc[r] # "idle") ~> Answered(r)

(* C15: for positive integer widths and heights the classification is
   "landscape" exactly when floor(100 * width / height) = 177, "portrait"
   exactly when it is 56 and "other" in every other case; 1920x1080 is
   landscape, 1080x1920 is portrait and 1000x1000 is other. *)
ExactRatio(width, height) ==
  LET q == (100 * width) \div height
  IN IF q = 177 THEN "landscape" ELSE IF q = 56 THEN "portrait" ELSE "other"

C15_ClassificationIsExactFloor ==
  sample.ratio # ""
    => /\ sample.ratio = ExactRatio(sample.width, sample.height)
       /\ (sample.width = 1920 /\ sample.height = 1080) => sample.ratio = "landscape"
       /\ (sample.width = 1080 /\ sample.height = 1920) => sample.ratio = "portrait"
       /\ (sample.width = 1000 /\ sample.height = 1000) => sample.ratio = "other"

(* C16: for every video upload that reaches the object store, the key of the
   put is {classification}/{videoId}.mp4, where classification is what the
   prober returned for the request's scratch file, one of landscape, portrait
   and other; the request adds no object under any other key. *)
C16_PutKeyIsClassAndId ==
  \A r \in Req :
    (args[r].op = "video" /\ Has(r, "put"))
      => /\ local[r].probe # <<>>
         /\ local[r].probe[1].streams = Streams(args[r].file.data)
         /\ local[r].aspectRatio = Ratio(local[r].probe[1].streams[1])
         /\ local[r].aspectRatio \in {"landscape", "portrait", "other"}
         /\ local[r].key = local[r].aspectRatio \o "/" \o args[r].videoId \o ".mp4"
         /\ DOMAIN s3 \ DOMAIN before[r].s3 \subseteq {local[r].key}
         /\ \A k \in DOMAIN before[r].s3 \ {local[r].key} : s3[k] = before[r].s3[k]
         /\ ~Has(r, "failed") => (local[r].key \in DOMAIN s3
                                   /\ s3[local[r].key] = disk[ProcessedOf(r)])

C16_Witness ==
  \E r \in Req :
    /\ Returned(r) /\ args[r].op = "video" /\ args[r].videoId = "v2"
    /\ args[r].file.data = "P"
    /\ local[r].key = "portrait/v2.mp4"
    /\ "portrait/v2.mp4" \in DOMAIN s3
    /\ "landscape/v2.mp4" \in DOMAIN before[r].s3

(* C17: a thumbnail retrieval for a videoId for which no thumbnail has been
   stored ends in a not-found error, never in a payload, whatever the registry
   holds for other identifiers. *)
C17_GetWithoutThumbnailIsNotFound ==
  \A r \in Req :
    (Answered(r) /\ args[r].op = "get"
       /\ (args[r].videoId \notin DOMAIN lastThumb
            \/ args[r].videoId \notin DOMAIN videoThumbnails))
      => (Threw(r) /\ result[r].error = "NotFoundError"
          /\ "data" \notin DOMAIN result[r])

C17_Witness ==
  \E r \in Req :
    /\ Threw(r) /\ args[r].op = "get" /\ args[r].videoId = "v1"
    /\ result[r].message = "Thumbnail not found"
    /\ "v1" \notin DOMAIN lastThumb /\ "v2" \in DOMAIN lastThumb

(* C18: in both upload paths validation comes first: a request with an invalid
   payload (absent, oversized, wrong media type) is rejected with the
   validation error whether or not the record exists or is the requester's;
   and the ownership check is made before any durable write (scratch file,
   asset file, object store, record). *)
DurableWrites == {"scratchWrite", "assetWrite", "put", "updateVideo"}

C18_ValidateThenAuthorizeThenWrite ==
  \A r \in Req :
    IsUpload(r)
      => /\ trace[r] # <<>> => trace[r][1] = "validate"
         /\ ~ValidPayload(r)
              => (Threw(r) /\ result[r].error = "BadRequestError"
                  /\ trace[r] = <<"validate">>)
         /\ \A i \in DOMAIN trace[r] :
              trace[r][i] \in DurableWrites
                => \E j \in 1..(i - 1) : trace[r][j] = "authorize"

(* C19: in every successful video upload the signed URL is requested for the
   key under which the remuxed file was put in the same request, with an
   expiry of 360 seconds, and the record returned to the caller carries that
   signed URL as its video-location; signing is never requested for a key
   that has not been put. *)
C19_SignedUrlOfPutKey ==
  \A r \in Req :
    args[r].op = "video"
      => /\ Has(r, "sign")
              => (Has(r, "put") /\ local[r].key \in DOMAIN s3)
         /\ Returned(r)
              => (Has(r, "sign") /\ local[r].key \in DOMAIN s3
                  /\ result[r].body.videoURL = Presign(local[r].key, 360)
                  /\ result[r].body.id = args[r].videoId)

C19_Witness ==
  \E r \in Req :
    /\ Returned(r) /\ args[r].op = "video" /\ args[r].videoId = "v1"
    /\ "landscape/v1.mp4" \in DOMAIN s3
    /\ result[r].body.videoURL =
         "https://bucket.s3/landscape/v1.mp4?X-Amz-Expires=360&X-Amz-Signature=sig"

(* C20: a successful thumbnail upload changes only the thumbnail-location of
   the record of its videoId, a successful video upload only the
   video-location of the record of its videoId: the other location, the owner
   and the identifier of that record and every other record are as the request
   found them; a thumbnail retrieval changes no record and no registry entry. *)
SameBut(field, now, was) ==
  \A f \in {"id", "userID", "videoURL", "thumbnailURL"} \ {field} : now[f] = was[f]

OthersUnchanged(r) ==
  /\ DOMAIN db = DOMAIN before[r].db
  /\ \A v \in DOMAIN db \ {args[r].videoId} : db[v] = before[r].db[v]

====
